---- MODULE Spec2Model ----
(***************************************************************************)
(* Model of run_kuzco_workers.py: a supervisor (main) that starts           *)
(* `instances` worker threads (run_worker), each of which keeps one child   *)
(* process alive, kills it through terminate_process, and is restarted as   *)
(* a fleet every 5 minutes (restart_all_workers).  SIGINT is handled by     *)
(* signal_handler, which only sets stop_flag.                               *)
(*                                                                         *)
(* Threads are named by the list that holds them and their place in it:     *)
(* <<"threads", i>> is threads[i] of main, <<"new_threads", i>> is          *)
(* new_threads[i] of restart_all_workers.                                   *)
(*                                                                         *)
(* Time is counted in minutes, the unit of --no-inference-timeout.  The     *)
(* sleeps (1 s, 5 s, 300 s) and the 3 s of wait_procs end at some time the  *)
(* model does not fix.  elapsed[t] is datetime.now() - last_inference_time  *)
(* of thread t, kept exactly up to the timeout and as "more" above it.      *)
(*                                                                         *)
(* A process is "alive", a "zombie" (exited, not yet waited for: its pid    *)
(* still exists) or "reaped" (waited for: its pid is gone).  A descendant   *)
(* that exits is reaped by its own parent or by init, so it is alive or     *)
(* gone.  What the child's tree looks like is the command's business: the   *)
(* model keeps the state of the child itself and of its output pipe, and    *)
(* terminate_process meets whatever descendants there are at its call.      *)
(***************************************************************************)
EXTENDS Integers, Sequences, FiniteSets, TLC

\* The largest args.instances (line 105): the number of workers of a fleet.
Instances == 2
\* args.no_inference_timeout (line 107), in minutes.
NoInferenceTimeout == 1
\* The most descendants a child has alive at a time.
MaxDesc == 1

VARIABLES
    instances,      \* args.instances
    stop_flag,      \* threading.Event of line 9
    interrupted,    \* signal_handler has run
    mainPc,         \* where main is: "start", "sleep", "join", "clear", "restart", "return"
    idx,            \* loop index of the for loop main is in
    threads,        \* main's list `threads`: the worker ids of its threads
    new_threads,    \* restart_all_workers' list `new_threads`, likewise
    pc,             \* per thread: where run_worker is
    process,        \* per thread: the local `process`: "None" or "Popen"
    parent,         \* per thread: state of the process `process` refers to
    pipe_open,      \* per thread: some process still holds the write end of stdout
    elapsed,        \* per thread: now - last_inference_time, in minutes
    age,            \* per thread: how long its running child has been running, in minutes
    abandoned,      \* per thread: a child it spawned and no longer refers to is alive
    term,           \* a call of terminate_process on its own (TermSpec)
    printed         \* what the last step printed, by the value of args.silent

vars == <<instances, stop_flag, interrupted, mainPc, idx, threads, new_threads,
          pc, process, parent, pipe_open, elapsed, age, abandoned, term, printed>>

mainVars == <<instances, mainPc, idx, threads, new_threads>>
procVars == <<process, parent, pipe_open>>

Ids     == 0 .. Instances - 1
Threads == {"threads", "new_threads"} \X Ids
Descs   == 1 .. MaxDesc
\* 0 names the process itself in a set of processes of its tree.
Self    == 0

Min(S) == CHOOSE x \in S : \A y \in S : x <= y

\* A print statement: its text (without the worker id), and whether it
\* stands under `if not silent`.
Line(text)       == [text |-> text, unless_silent |-> FALSE]
UnlessSilent(text) == [text |-> text, unless_silent |-> TRUE]
\* The texts that reach stdout of the statements msgs, in a run with --silent
\* (silent = TRUE) and in one without.
Shown(msgs, silent) ==
    LET shown == SelectSeq(msgs, LAMBDA m : ~(silent /\ m.unless_silent))
    IN  [k \in 1 .. Len(shown) |-> shown[k].text]
print(msgs) == printed' = [silent \in BOOLEAN |-> Shown(msgs, silent)]
\* lines 15-39: the lines of terminate_process on a process that is not None.
Terminating == Line("Terminating process")

------------------------------------------------------------------------------
(* terminate_process, lines 15-39, on a process that is not None.           *)
(* par, ds: the tree at the call.  The environment's part:                  *)
(*   exits    - enumerated descendants that exit between the enumeration    *)
(*              (line 19) and their own terminate() (line 23);              *)
(*   denied   - descendants that run under another user: terminate() on     *)
(*              them raises psutil.AccessDenied;                            *)
(*   stubborn - processes that do not exit on SIGTERM within 3 s;           *)
(*   late     - descendants that survive the 3 s and exit just before       *)
(*              their kill() (line 32);                                     *)
(*   killed   - the survivors that line 32 reaches before one of `late`     *)
(*              raises (wait_procs returns `alive` from a set, in any       *)
(*              order).                                                     *)
(* The result: the tree at the return, the snapshot of lines 18-19, the     *)
(* processes a signal was sent to, and which except clause ran.             *)
terminate_tree(par, ds, exits, denied, stubborn, late, killed) ==
    IF par = "reaped"
    THEN \* line 18: psutil.Process(pid) raises NoSuchProcess
         [parent |-> par, desc |-> ds, snapshot |-> {}, signalled |-> {},
          except |-> "NoSuchProcess"]
    ELSE
      LET children == IF par = "alive" THEN ds ELSE {}   \* line 19
          snap     == children \cup {Self}
          gone1    == exits \cap children
          bad1     == (exits \cup denied) \cap children
      IN  IF bad1 # {}
          THEN \* line 23 raises at the first child that is gone (NoSuchProcess)
               \* or out of reach (AccessDenied): lines 24-32 are skipped
               LET sig == {d \in children : d < Min(bad1)}
               IN  [parent |-> par,
                    desc |-> ds \ (gone1 \cup (sig \ stubborn)),
                    snapshot |-> snap, signalled |-> sig,
                    except |-> IF Min(bad1) \in gone1 THEN "NoSuchProcess"
                               ELSE "AccessDenied"]
          ELSE
               LET alive == IF par = "alive" THEN stubborn \cap snap ELSE {}
                   gone2 == late \cap alive \cap children
                   hit   == IF gone2 = {} THEN alive
                            ELSE killed \cap (alive \ gone2)
               IN  [parent |-> IF Self \notin alive THEN "reaped"   \* wait_procs waited for it
                               ELSE IF Self \in hit THEN "zombie"   \* killed, not waited for
                               ELSE "alive",
                    desc |-> ds \ ((children \ alive) \cup gone2 \cup hit),
                    snapshot |-> snap, signalled |-> snap,
                    except |-> IF gone2 = {} THEN "none" ELSE "NoSuchProcess"]

\* What the environment may do during one call on a tree with descendants ds.
Races(ds) ==
    [exits : SUBSET ds, denied : SUBSET ds, stubborn : SUBSET (ds \cup {Self}),
     late : SUBSET ds, killed : SUBSET (ds \cup {Self})]

\* An except clause that lets every error but NoSuchProcess through.
AbsorbsNoSuchProcessOnly(exc) == exc = "NoSuchProcess"
\* lines 34-37: `except psutil.NoSuchProcess`, then `except Exception`, of
\* which every psutil error is a subclass.
Absorbs(exc) == exc = "NoSuchProcess" \/ exc \in {"NoSuchProcess", "AccessDenied"}

\* terminate_process, lines 11-39: nothing is done for None (lines 12-13).
\* raised: an error of the try block leaves terminate_process.
terminate_process(proc, par, ds, r) ==
    IF proc = "None"
    THEN [parent |-> par, desc |-> ds, snapshot |-> {}, signalled |-> {},
          except |-> "none", raised |-> FALSE]
    ELSE LET res == terminate_tree(par, ds, r.exits, r.denied, r.stubborn,
                                   r.late, r.killed)
         IN  [parent |-> res.parent, desc |-> res.desc,
              snapshot |-> res.snapshot, signalled |-> res.signalled,
              except |-> res.except,
              raised |-> res.except # "none" /\ ~Absorbs(res.except)]

\* The states terminate_process may leave a process in, by its state at the
\* call, whatever descendants it has and whatever they do.
TerminatedStates ==
    [par \in {"alive", "zombie", "reaped"} |->
        UNION {{terminate_process("Popen", par, ds, r).parent : r \in Races(ds)} :
                 ds \in SUBSET Descs}]

Terminated(par) == TerminatedStates[par]

------------------------------------------------------------------------------
\* The thread is inside run_worker.
Running(t)  == pc[t] \in {"loop", "read", "stall", "cooldown"}
\* The thread has ended: run_worker returned, or raised.
Finished(t) == pc[t] \in {"done", "crashed"}

\* A join that does not wait for the thread.
JoinedWithoutWaiting(t) == TRUE
\* thread.join() of line 91 returns.
Joined(t) == Finished(t)

\* The comparison of line 67 with >= in place of >.
StallAtTimeout(e) == e >= NoInferenceTimeout
\* line 67: datetime.now() - last_inference_time > timedelta(minutes=no_inference_timeout)
StallExceeded(e) == e > NoInferenceTimeout

\* line 46: process.poll() is not None (poll waits for a zombie).
Exited(t) == process[t] = "Popen" /\ parent[t] # "alive"

\* thread.start() of lines 97 and 118, and lines 42-43 of the new thread.
StartThread(t) ==
    /\ pc' = [pc EXCEPT ![t] = "loop"]
    /\ process' = [process EXCEPT ![t] = "None"]
    /\ parent' = [parent EXCEPT ![t] = "none"]
    /\ pipe_open' = [pipe_open EXCEPT ![t] = FALSE]
    /\ elapsed' = [elapsed EXCEPT ![t] = 0]
    /\ age' = [age EXCEPT ![t] = 0]
    /\ abandoned' = [abandoned EXCEPT ![t] = FALSE]

\* `process = None` (lines 70, 76) or the end of run_worker, after
\* terminate_process left the child in state par.
Drop(t, par) ==
    /\ process' = [process EXCEPT ![t] = "None"]
    /\ parent' = [parent EXCEPT ![t] = "none"]
    /\ pipe_open' = [pipe_open EXCEPT ![t] = FALSE]
    /\ age' = [age EXCEPT ![t] = 0]
    /\ abandoned' = [abandoned EXCEPT ![t] = abandoned[t] \/ par = "alive"]

------------------------------------------------------------------------------
(* run_worker *)

\* A worker that clears stop_flag when it returns.
run_worker_stop_clears(t) ==
    /\ pc[t] = "loop" /\ stop_flag
    /\ \/ process[t] = "None" /\ UNCHANGED <<procVars, age, abandoned>>
       \/ /\ process[t] = "Popen"
          /\ \E par \in Terminated(parent[t]) : Drop(t, par)
    /\ pc' = [pc EXCEPT ![t] = "done"]
    /\ elapsed' = [elapsed EXCEPT ![t] = 0]
    /\ stop_flag' = FALSE
    /\ print(IF process[t] = "Popen" THEN <<Line("Stopping"), Terminating>> ELSE <<>>)
    /\ UNCHANGED <<interrupted, mainVars, term>>

\* lines 45, 79-81: stop_flag is set: terminate the child, if any, and return.
run_worker_stop(t) ==
    /\ pc[t] = "loop" /\ stop_flag
    /\ \/ process[t] = "None" /\ UNCHANGED <<procVars, age, abandoned>>
       \/ /\ process[t] = "Popen"
          /\ \E par \in Terminated(parent[t]) : Drop(t, par)
    /\ pc' = [pc EXCEPT ![t] = "done"]
    /\ elapsed' = [elapsed EXCEPT ![t] = 0]
    /\ print(IF process[t] = "Popen" THEN <<Line("Stopping"), Terminating>> ELSE <<>>)
    /\ UNCHANGED <<stop_flag, interrupted, mainVars, term>>

\* A loop that spawns before it tests stop_flag.
run_worker_spawn_untested(t) ==
    /\ pc[t] = "loop"
    /\ process[t] = "None" \/ Exited(t)
    /\ process' = [process EXCEPT ![t] = "Popen"]
    /\ parent' = [parent EXCEPT ![t] = "alive"]
    /\ pipe_open' = [pipe_open EXCEPT ![t] = TRUE]
    /\ elapsed' = [elapsed EXCEPT ![t] = 0]
    /\ age' = [age EXCEPT ![t] = 0]
    /\ pc' = [pc EXCEPT ![t] = "read"]
    /\ print(IF Exited(t) THEN <<Line("Restarting"), Terminating>> ELSE <<>>)
    /\ UNCHANGED <<stop_flag, interrupted, mainVars, abandoned, term>>

\* The spawn without line 52: last_inference_time keeps its value.
run_worker_spawn_keeps_time(t) ==
    /\ pc[t] = "loop" /\ ~stop_flag
    /\ process[t] = "None" \/ Exited(t)
    /\ process' = [process EXCEPT ![t] = "Popen"]
    /\ parent' = [parent EXCEPT ![t] = "alive"]
    /\ pipe_open' = [pipe_open EXCEPT ![t] = TRUE]
    /\ age' = [age EXCEPT ![t] = 0]
    /\ pc' = [pc EXCEPT ![t] = "read"]
    /\ print(IF Exited(t) THEN <<Line("Restarting"), Terminating>> ELSE <<>>)
    /\ UNCHANGED <<stop_flag, interrupted, mainVars, elapsed, abandoned, term>>

\* lines 45-52: no child, or the child has exited: (terminate and) spawn.
\* terminate_process of line 49 finds the pid gone (line 18 raises), so it
\* changes nothing; the descendants the old child left are not looked at.
run_worker_spawn(t) ==
    /\ pc[t] = "loop" /\ ~stop_flag
    /\ process[t] = "None" \/ Exited(t)
    /\ process' = [process EXCEPT ![t] = "Popen"]
    /\ parent' = [parent EXCEPT ![t] = "alive"]
    /\ pipe_open' = [pipe_open EXCEPT ![t] = TRUE]
    /\ elapsed' = [elapsed EXCEPT ![t] = 0]
    /\ age' = [age EXCEPT ![t] = 0]
    /\ pc' = [pc EXCEPT ![t] = "read"]
    /\ print(IF Exited(t) THEN <<Line("Restarting"), Terminating>> ELSE <<>>)
    /\ UNCHANGED <<stop_flag, interrupted, mainVars, abandoned, term>>

\* line 51 raises (OSError: fork or pipe fails): it is outside the try of
\* line 54, so the exception leaves run_worker and the thread ends.
run_worker_spawn_fails(t) ==
    /\ pc[t] = "loop" /\ ~stop_flag
    /\ process[t] = "None" \/ Exited(t)
    /\ Drop(t, "reaped")
    /\ elapsed' = [elapsed EXCEPT ![t] = 0]
    /\ pc' = [pc EXCEPT ![t] = "crashed"]
    /\ print(IF Exited(t) THEN <<Line("Restarting"), Terminating>> ELSE <<>>)
    /\ UNCHANGED <<stop_flag, interrupted, mainVars, term>>

\* lines 45-46, 54-56: the child is running: go on to readline().
run_worker_continue(t) ==
    /\ pc[t] = "loop" /\ ~stop_flag
    /\ process[t] = "Popen" /\ parent[t] = "alive"
    /\ pc' = [pc EXCEPT ![t] = "read"]
    /\ UNCHANGED age
    /\ print(<<>>)
    /\ UNCHANGED <<stop_flag, interrupted, mainVars, procVars, elapsed, abandoned, term>>

\* A read that takes every line for a sign of life.
run_worker_line_any(t, marker) ==
    /\ pc[t] = "read" /\ pipe_open[t]
    /\ elapsed' = [elapsed EXCEPT ![t] = 0]
    /\ pc' = [pc EXCEPT ![t] = "loop"]
    /\ UNCHANGED age
    /\ print(<<UnlessSilent("output")>>)
    /\ UNCHANGED <<stop_flag, interrupted, mainVars, procVars, abandoned, term>>

\* lines 56-63: readline() returns a line; marker: it contains 'Inference finished'.
run_worker_line(t, marker) ==
    /\ pc[t] = "read" /\ pipe_open[t]
    /\ elapsed' = [elapsed EXCEPT ![t] = IF marker THEN 0 ELSE @]
    /\ pc' = [pc EXCEPT ![t] = "loop"]
    /\ UNCHANGED age
    /\ print(<<UnlessSilent("output")>>)
    /\ UNCHANGED <<stop_flag, interrupted, mainVars, procVars, abandoned, term>>

\* lines 56, 64-67: readline() returns ''.  poll() waits for a zombie; for a
\* live child the time since the last inference is compared to the timeout.
run_worker_eof(t) ==
    /\ pc[t] = "read" /\ ~pipe_open[t]
    /\ parent' = [parent EXCEPT ![t] = IF @ = "zombie" THEN "reaped" ELSE @]
    /\ pc' = [pc EXCEPT ![t] =
                IF parent[t] = "alive" /\ StallExceeded(elapsed[t])
                THEN "stall" ELSE "loop"]
    /\ UNCHANGED age
    /\ print(<<>>)
    /\ UNCHANGED <<stop_flag, interrupted, mainVars, process, pipe_open,
                   elapsed, abandoned, term>>

\* lines 68-71: the stall path.
run_worker_stall(t) ==
    /\ pc[t] = "stall"
    /\ \E par \in Terminated(parent[t]) : Drop(t, par)
    /\ elapsed' = [elapsed EXCEPT ![t] = 0]
    /\ pc' = [pc EXCEPT ![t] = "loop"]
    /\ print(<<Line("No inference finished"), Terminating>>)
    /\ UNCHANGED <<stop_flag, interrupted, mainVars, term>>

\* The read error handled without the pause: straight back to the loop test.
run_worker_error_no_pause(t) ==
    /\ pc[t] = "read" /\ pipe_open[t]
    /\ \E par \in Terminated(parent[t]) : Drop(t, par)
    /\ pc' = [pc EXCEPT ![t] = "loop"]
    /\ print(<<Line("Error"), Terminating>>)
    /\ UNCHANGED <<stop_flag, interrupted, mainVars, elapsed, term>>

\* lines 73-77: readline() raises (a line that cannot be decoded).
run_worker_error(t) ==
    /\ pc[t] = "read" /\ pipe_open[t]
    /\ \E par \in Terminated(parent[t]) : Drop(t, par)
    /\ pc' = [pc EXCEPT ![t] = "cooldown"]
    /\ print(<<Line("Error"), Terminating>>)
    /\ UNCHANGED <<stop_flag, interrupted, mainVars, elapsed, term>>

\* line 77: time.sleep(5) returns.
run_worker_wake(t) ==
    /\ pc[t] = "cooldown"
    /\ pc' = [pc EXCEPT ![t] = "loop"]
    /\ UNCHANGED age
    /\ print(<<>>)
    /\ UNCHANGED <<stop_flag, interrupted, mainVars, procVars, elapsed, abandoned, term>>

------------------------------------------------------------------------------
(* The child processes: the command is an opaque program. *)

\* The child exits; orphans: descendants it leaves still hold its stdout.
child_exits(t, orphans) ==
    /\ process[t] = "Popen" /\ parent[t] = "alive"
    /\ parent' = [parent EXCEPT ![t] = "zombie"]
    /\ age' = [age EXCEPT ![t] = 0]
    /\ pipe_open' = [pipe_open EXCEPT ![t] = @ /\ orphans]
    /\ print(<<>>)
    /\ UNCHANGED <<stop_flag, interrupted, mainVars, pc, process, elapsed,
                   abandoned, term>>

\* The last holder of the write end closes it: a live child (and its
\* descendants) closing stdout, or the last orphan exiting.
pipe_closes(t) ==
    /\ process[t] = "Popen" /\ pipe_open[t]
    /\ pipe_open' = [pipe_open EXCEPT ![t] = FALSE]
    /\ UNCHANGED age
    /\ print(<<>>)
    /\ UNCHANGED <<stop_flag, interrupted, mainVars, pc, process, parent, elapsed,
                   abandoned, term>>

\* The children a thread left alive exit by themselves.
abandoned_exit(t) ==
    /\ abandoned[t]
    /\ abandoned' = [abandoned EXCEPT ![t] = FALSE]
    /\ UNCHANGED age
    /\ print(<<>>)
    /\ UNCHANGED <<stop_flag, interrupted, mainVars, pc, procVars, elapsed, term>>

\* A minute passes.
Tick ==
    /\ elapsed' = [t \in Threads |->
                     IF Running(t) /\ elapsed[t] <= NoInferenceTimeout
                     THEN elapsed[t] + 1 ELSE elapsed[t]]
    /\ age' = [t \in Threads |->
                 IF parent[t] = "alive" /\ age[t] <= NoInferenceTimeout
                 THEN age[t] + 1 ELSE age[t]]
    /\ print(<<>>)
    /\ UNCHANGED <<stop_flag, interrupted, mainVars, pc, procVars, abandoned, term>>

------------------------------------------------------------------------------
(* main, restart_all_workers, signal_handler *)

\* lines 83-85, installed by line 110 in place of the handler that raises
\* KeyboardInterrupt: SIGINT only sets stop_flag, and main goes on where it
\* was (sleep and join resume after a handler that returns).  Lines 126-132
\* therefore never run, and main has no step that returns.
signal_handler ==
    /\ stop_flag' = TRUE
    /\ interrupted' = TRUE
    /\ UNCHANGED age
    /\ print(<<Line("Ctrl+C pressed")>>)
    /\ UNCHANGED <<mainVars, pc, procVars, elapsed, abandoned, term>>

\* lines 116-120, and line 124 after the last start.
main_start ==
    /\ mainPc = "start" /\ idx < instances
    /\ StartThread(<<"threads", idx>>)
    /\ threads' = Append(threads, idx)
    /\ idx' = idx + 1
    /\ mainPc' = IF idx + 1 = instances THEN "sleep" ELSE "start"
    /\ print(<<>>)
    /\ UNCHANGED <<instances, stop_flag, interrupted, new_threads, term>>

\* lines 124-125, 88-89: the sleep is over; restart_all_workers sets stop_flag.
restart_begin ==
    /\ mainPc = "sleep"
    /\ stop_flag' = TRUE
    /\ mainPc' = "join"
    /\ idx' = 0
    /\ UNCHANGED age
    /\ print(<<Line("Restarting all workers")>>)
    /\ UNCHANGED <<instances, interrupted, threads, new_threads, pc, procVars,
                   elapsed, abandoned, term>>

\* lines 90-91: one thread.join() returns.
restart_join ==
    /\ mainPc = "join" /\ idx < Len(threads)
    /\ Joined(<<"threads", idx>>)
    /\ idx' = idx + 1
    /\ mainPc' = IF idx + 1 = Len(threads) THEN "clear" ELSE "join"
    /\ UNCHANGED age
    /\ print(<<>>)
    /\ UNCHANGED <<instances, stop_flag, interrupted, threads, new_threads, pc,
                   procVars, elapsed, abandoned, term>>

\* lines 92-94.
restart_clear ==
    /\ mainPc = "clear"
    /\ stop_flag' = FALSE
    /\ new_threads' = <<>>
    /\ mainPc' = "restart"
    /\ idx' = 0
    /\ UNCHANGED age
    /\ print(<<>>)
    /\ UNCHANGED <<instances, interrupted, threads, pc, procVars, elapsed, abandoned, term>>

\* A restart loop that gives every new thread the worker id 0.
restart_start_one_id ==
    /\ mainPc = "restart" /\ idx < Len(threads)
    /\ StartThread(<<"new_threads", idx>>)
    /\ new_threads' = Append(new_threads, 0)
    /\ idx' = idx + 1
    /\ mainPc' = IF idx + 1 = Len(threads) THEN "return" ELSE "restart"
    /\ print(<<>>)
    /\ UNCHANGED <<instances, stop_flag, interrupted, threads, term>>
\* lines 95-99.
restart_start ==
    /\ mainPc = "restart" /\ idx < Len(threads)
    /\ StartThread(<<"new_threads", idx>>)
    /\ new_threads' = Append(new_threads, idx)
    /\ idx' = idx + 1
    /\ mainPc' = IF idx + 1 = Len(threads) THEN "return" ELSE "restart"
    /\ print(<<>>)
    /\ UNCHANGED <<instances, stop_flag, interrupted, threads, term>>

\* The threads of new_threads under the names of threads.
Renamed(f, none) ==
    [t \in Threads |-> IF t[1] = "threads" THEN f[<<"new_threads", t[2]>>] ELSE none]

\* line 100 and the assignment of line 125: `threads` is now the new list,
\* and nothing refers to the old threads any more.
restart_return ==
    /\ mainPc = "return"
    /\ threads' = new_threads
    /\ new_threads' = <<>>
    /\ pc' = Renamed(pc, "unstarted")
    /\ process' = Renamed(process, "None")
    /\ parent' = Renamed(parent, "none")
    /\ pipe_open' = Renamed(pipe_open, FALSE)
    /\ elapsed' = Renamed(elapsed, 0)
    /\ age' = Renamed(age, 0)
    /\ abandoned' = Renamed(abandoned, FALSE)
    /\ mainPc' = "sleep"
    /\ print(<<>>)
    /\ UNCHANGED <<instances, stop_flag, interrupted, idx, term>>

------------------------------------------------------------------------------
\* The state at line 115, for args.instances = n.
Started(n) ==
    /\ instances = n
    /\ stop_flag = FALSE
    /\ interrupted = FALSE
    /\ mainPc = "start"
    /\ idx = 0
    /\ threads = <<>>
    /\ new_threads = <<>>
    /\ pc = [t \in Threads |-> "unstarted"]
    /\ process = [t \in Threads |-> "None"]
    /\ parent = [t \in Threads |-> "none"]
    /\ pipe_open = [t \in Threads |-> FALSE]
    /\ elapsed = [t \in Threads |-> 0]
    /\ age = [t \in Threads |-> 0]
    /\ abandoned = [t \in Threads |-> FALSE]
    \* lines 112-113
    /\ printed = [silent \in BOOLEAN |->
                     Shown(<<UnlessSilent("Starting workers")>>, silent)]

Init == Started(Instances) /\ term = [phase |-> "idle"]

Next ==
    \/ \E t \in Threads : run_worker_stop(t)
    \/ \E t \in Threads : run_worker_spawn(t)
    \/ \E t \in Threads : run_worker_spawn_fails(t)
    \/ \E t \in Threads : run_worker_continue(t)
    \/ \E t \in Threads : \E marker \in BOOLEAN : run_worker_line(t, marker)
    \/ \E t \in Threads : run_worker_eof(t)
    \/ \E t \in Threads : run_worker_stall(t)
    \/ \E t \in Threads : run_worker_error(t)
    \/ \E t \in Threads : run_worker_wake(t)
    \/ \E t \in Threads : \E orphans \in BOOLEAN : child_exits(t, orphans)
    \/ \E t \in Threads : pipe_closes(t)
    \/ \E t \in Threads : abandoned_exit(t)
    \/ Tick
    \/ signal_handler
    \/ main_start
    \/ restart_begin
    \/ restart_join
    \/ restart_clear
    \/ restart_start
    \/ restart_return

Spec == Init /\ [][Next]_vars

\* A fleet of one worker: run_worker on its own under main.
WorkerInit == Started(1) /\ term = [phase |-> "idle"]
WorkerSpec == WorkerInit /\ [][Next]_vars

\* Every args.instances from 1 up to the bound.
FleetInit == (\E n \in 1 .. Instances : Started(n)) /\ term = [phase |-> "idle"]
FleetSpec == FleetInit /\ [][Next]_vars

\* terminate_process on its own: every handle, every tree, every race.
TermCalls ==
    {[phase |-> "call", process |-> "None", parent |-> "none", desc |-> {},
      race |-> [exits |-> {}, denied |-> {}, stubborn |-> {}, late |-> {},
                killed |-> {}]]}
    \cup UNION {[phase : {"call"}, process : {"Popen"},
                 parent : {"alive", "zombie", "reaped"}, desc : {ds},
                 race : Races(ds)] : ds \in SUBSET Descs}

\* One call of terminate_process, from `Terminating process...` to its return.
term_call ==
    /\ term.phase = "call"
    /\ term' = [phase |-> "returned", process |-> term.process,
                parent |-> term.parent, desc |-> term.desc, race |-> term.race,
                result |-> terminate_process(term.process, term.parent,
                                             term.desc, term.race)]
    /\ UNCHANGED age
    /\ print(IF term.process = "None" THEN <<>> ELSE <<Terminating>>)
    /\ UNCHANGED <<stop_flag, interrupted, mainVars, pc, procVars, elapsed, abandoned>>

TermInit == Started(Instances) /\ term \in TermCalls
TermNext == term_call
TermSpec == TermInit /\ [][TermNext]_vars

\* terminate_process called once more on the same handle, on the tree the
\* first call left, with what the environment does during the second call.
term_again ==
    /\ term.phase = "returned"
    /\ \E r \in Races(term.result.desc) :
         term' = [phase |-> "again", process |-> term.process,
                  parent |-> term.result.parent, desc |-> term.result.desc,
                  race |-> r,
                  result |-> terminate_process(term.process, term.result.parent,
                                               term.result.desc, r)]
    /\ UNCHANGED age
    /\ print(IF term.process = "None" THEN <<>> ELSE <<Terminating>>)
    /\ UNCHANGED <<stop_flag, interrupted, mainVars, pc, procVars, elapsed, abandoned>>

TermTwiceNext == term_call \/ term_again
TermTwiceSpec == TermInit /\ [][TermTwiceNext]_vars

\* Scheduling: a thread that can take a step of its own takes it (the steps
\* that wait for the child - a line, an error, the child's exit - are the
\* child's to give), main's sleeps end, and time passes.
WorkerStep(t) ==
    \/ run_worker_stop(t) \/ run_worker_spawn(t) \/ run_worker_continue(t)
    \/ run_worker_eof(t) \/ run_worker_stall(t) \/ run_worker_wake(t)
MainStep ==
    \/ main_start \/ restart_begin \/ restart_join \/ restart_clear
    \/ restart_start \/ restart_return
Fairness ==
    /\ \A t \in Threads : WF_vars(WorkerStep(t))
    /\ WF_vars(MainStep)
    /\ WF_vars(Tick)
FairSpec == Spec /\ Fairness
FairWorkerSpec == WorkerSpec /\ Fairness

------------------------------------------------------------------------------
(* Properties *)

\* C1: after SIGINT, at whatever point of main, main eventually joins its
\* threads and returns.
MainReturned == mainPc = "returned"
C1_InterruptEndsMain == interrupted ~> MainReturned

\* C2: after SIGINT stop_flag is never cleared again and no thread spawns a
\* child any more.
C2_NoRestartAfterInterrupt ==
    [][interrupted =>
         stop_flag' /\ \A t \in Threads : ~run_worker_spawn(t)]_vars

\* C3: once stop_flag is set, every thread inside run_worker eventually
\* leaves it, also one that waits in readline() for a child that is alive
\* and silent.
C3_StopEndsEveryWorker ==
    \A t \in Threads : (stop_flag /\ Running(t)) ~> ~Running(t)

\* C4: when every thread of `threads` has returned, no child that any of
\* them spawned is alive.
AllReturned ==
    /\ Len(threads) = instances
    /\ \A i \in 0 .. instances - 1 : pc[<<"threads", i>>] = "done"
C4_NoChildAfterReturn ==
    AllReturned => \A i \in 0 .. instances - 1 : ~abandoned[<<"threads", i>>]

\* C5: for no worker id are the thread of the old list and the thread of the
\* new list inside run_worker at the same time.
C5_NoGenerationOverlap ==
    \A i \in Ids : ~(Running(<<"threads", i>>) /\ Running(<<"new_threads", i>>))
\* A restart is under way: a new thread has its child, the old one has ended.
C5_Witness ==
    \E i \in Ids : /\ Finished(<<"threads", i>>)
                    /\ pc[<<"new_threads", i>>] = "read"
                    /\ parent[<<"new_threads", i>>] = "alive"

\* C6: a thread whose child is alive and whose last inference is more than
\* the timeout ago does not stay so for ever: the stall path runs (or the
\* stall ends by a marker, the child's exit or the thread's end).
Stalled(t) ==
    pc[t] = "read" /\ parent[t] = "alive" /\ StallExceeded(elapsed[t])
C6_StallIsDetected ==
    \A t \in Threads : Stalled(t) ~> (pc[t] = "stall" \/ ~Stalled(t))

\* C7: the stall path is entered only with more than the timeout elapsed
\* since the last inference: never at exactly the timeout, nor below it.
C7_StallOnlyAboveTimeout ==
    \A t \in Threads : pc[t] = "stall" => elapsed[t] > NoInferenceTimeout
\* The stall path has been entered.
C7_Witness == \E t \in Threads : pc[t] = "stall" /\ parent[t] = "alive"

\* C8: when terminate_process has returned, no process of the snapshot of
\* lines 18-19 is alive, also when an enumerated process exits by itself
\* between the enumeration and its signal.
C8_SnapshotGone ==
    term.phase = "returned" =>
        /\ Self \in term.result.snapshot => term.result.parent # "alive"
        /\ term.result.snapshot \cap term.result.desc = {}

\* C9: no thread has two live children: the one it refers to and one it
\* spawned before.
C9_OneLiveChild ==
    \A t \in Threads : ~(abandoned[t] /\ parent[t] = "alive")

\* C10: a thread leaves run_worker only with stop_flag set: no error inside
\* it ends the thread.
C10_WorkerEndsOnlyOnStop ==
    [][\A t \in Threads : (Running(t) /\ Finished(t)') => stop_flag]_vars

\* C11: terminate_process returns to its caller whatever fails between its
\* enumeration and its last kill(): no error leaves it.
C11_TerminateNeverRaises ==
    term.phase = "returned" => ~term.result.raised
\* A call in which an error other than NoSuchProcess was raised and absorbed.
C11_Witness ==
    term.phase = "returned" /\ term.result.except = "AccessDenied"

\* C12: the start loop and every fleet restart create one thread for each
\* worker id 0 .. instances-1, in this order, and no other: the lists hold
\* exactly these ids when their loop is over, and the ids below the loop
\* index while it runs.
FleetIds(n) == [k \in 1 .. n |-> k - 1]
C12_FleetOfNDistinctIds ==
    /\ threads = FleetIds(IF mainPc = "start" THEN idx ELSE instances)
    /\ new_threads = FleetIds(IF mainPc = "restart" THEN idx
                              ELSE IF mainPc = "return" THEN instances ELSE 0)
    /\ \A i \in Ids : /\ (pc[<<"threads", i>>] # "unstarted") = (i < Len(threads))
                       /\ (pc[<<"new_threads", i>>] # "unstarted") = (i < Len(new_threads))
\* A fleet restart of the largest fleet has started all its threads.
C12_Witness ==
    mainPc = "return" /\ instances = Instances /\ Len(new_threads) = Instances

\* C13: terminate_process on None signals nothing and changes nothing; and a
\* second call on a handle whose process the first call has terminated (it
\* is no longer alive) sends no signal and changes no process state.
C13_TerminateIdempotent ==
    /\ (term.phase \in {"returned", "again"} /\ term.process = "None") =>
          /\ term.result.signalled = {}
          /\ term.result.parent = term.parent /\ term.result.desc = term.desc
    /\ (term.phase = "again" /\ term.parent # "alive") =>
          /\ term.result.signalled = {}
          /\ term.result.parent = term.parent /\ term.result.desc = term.desc

\* C14: a run with --silent and a run without it that take the same steps
\* print the same lifecycle lines at every step: they differ only in the
\* lines of the worker's own output.
Lifecycle(out) == SelectSeq(out, LAMBDA text : text # "output")
C14_SilentHidesOnlyOutput ==
    Lifecycle(printed[TRUE]) = Lifecycle(printed[FALSE])

\* C15: when the child of a worker has exited by itself and stop_flag is not
\* set, the worker eventually has a new child, unless stop_flag is set
\* first and makes it return.
HasLiveChild(t) == process[t] = "Popen" /\ parent[t] = "alive"
C15_ExitLeadsToRespawn ==
    \A i \in Ids :
        (Running(<<"threads", i>>) /\ Exited(<<"threads", i>>) /\ ~stop_flag)
            ~> (HasLiveChild(<<"threads", i>>) \/ pc[<<"threads", i>>] = "done")

\* C16: a read error passes the child to terminate_process, drops the handle
\* and starts the pause; during the pause the thread has no child and
\* spawns none; and a thread that finds stop_flag set in or after the pause
\* keeps no child until it returns.
Paused(t) == pc[t] = "cooldown"
StoppedAfterPause(t) ==
    pc[t] \in {"cooldown", "loop"} /\ process[t] = "None" /\ stop_flag
C16_ReadErrorCooldown ==
    [][\A t \in Threads :
         /\ run_worker_error(t) =>
               Paused(t)' /\ process'[t] = "None" /\ printed'[TRUE] = <<"Error", "Terminating process">>
         /\ (Paused(t) /\ ~restart_return) =>
               process'[t] = "None" /\ pc'[t] \in {"cooldown", "loop"}
         /\ (StoppedAfterPause(t) /\ ~restart_return) =>
               StoppedAfterPause(t)' \/ (pc'[t] = "done" /\ process'[t] = "None")]_vars
\* stop_flag has been set while a thread was in its pause.
C16_Witness == \E t \in Threads : Paused(t) /\ stop_flag

\* C17: last_inference_time of a thread is never earlier than the spawn of
\* its running child (every spawn sets it to the spawn time, so nothing seen
\* before the spawn counts), and the stall path is entered only for a child
\* that has been running for more than the timeout.
C17_LivenessCountsFromSpawn ==
    \A t \in Threads :
        /\ HasLiveChild(t) => elapsed[t] <= age[t]
        /\ (pc[t] = "stall" /\ HasLiveChild(t)) => age[t] > NoInferenceTimeout
\* The stall path has been entered for a running child, more than the
\* timeout after its spawn.
C17_Witness ==
    \E t \in Threads : pc[t] = "stall" /\ HasLiveChild(t) /\ age[t] > NoInferenceTimeout

\* C18: reading a line without the marker changes neither last_inference_time
\* nor the handle nor the child; and while a thread is inside run_worker its
\* last_inference_time is set only by a spawn, by a line with the marker and
\* by the stall path (elapsed otherwise changes only as time passes).
C18_OnlyMarkerCounts ==
    [][\A t \in Threads :
         /\ run_worker_line(t, FALSE) =>
               /\ elapsed'[t] = elapsed[t]
               /\ process'[t] = process[t] /\ parent'[t] = parent[t]
               /\ age'[t] = age[t]
         /\ (Running(t) /\ Running(t)' /\ elapsed'[t] # elapsed[t] /\ ~Tick) =>
               run_worker_spawn(t) \/ run_worker_line(t, TRUE) \/ run_worker_stall(t)]_vars
\* A line without the marker has just been read, some time after the last
\* sign of life.
C18_Witness ==
    \E t \in Threads : /\ pc[t] = "loop" /\ HasLiveChild(t) /\ elapsed[t] > 0
                        /\ printed[FALSE] = <<"output">>

\* C19: stop_flag is set only by signal_handler and by restart_all_workers
\* (line 89), and cleared only by restart_all_workers (line 92), when every
\* thread of the list it joined has ended; no step of run_worker and no call
\* of terminate_process changes it.
C19_OnlySupervisorWritesStopFlag ==
    [][/\ (~stop_flag /\ stop_flag') => signal_handler \/ restart_begin
       /\ (stop_flag /\ ~stop_flag') =>
             /\ restart_clear
             /\ \A i \in 0 .. Len(threads) - 1 : Finished(<<"threads", i>>)]_vars
\* The flag has been cleared by a fleet restart after a SIGINT had set it.
C19_Witness ==
    /\ mainPc = "restart" /\ idx = 0 /\ ~stop_flag /\ interrupted
    /\ Len(threads) = Instances

\* C20: a thread that is started while stop_flag is set is at its loop test
\* without a child; and a thread at the loop test without a child and with
\* stop_flag set stays so until it returns, which it does without a spawn
\* and without a call of terminate_process.
Idle(t) ==
    pc[t] = "loop" /\ process[t] = "None" /\ ~abandoned[t] /\ stop_flag
C20_StartedStoppedNeverSpawns ==
    [][\A t \in Threads :
         /\ (stop_flag /\ ~Running(t) /\ Running(t)' /\ ~restart_return) => Idle(t)'
         /\ (Idle(t) /\ ~restart_return) =>
               \/ Idle(t)'
               \/ /\ pc'[t] = "done" /\ process'[t] = "None" /\ ~abandoned'[t]
                  /\ printed'[TRUE] = <<>>]_vars
\* A thread of the startup or restart stagger has returned without a child
\* after a SIGINT.
C20_Witness ==
    \E t \in Threads :
        /\ mainPc \in {"start", "restart"} /\ interrupted /\ stop_flag
        /\ pc[t] = "done" /\ ~abandoned[t] /\ printed[TRUE] = <<>>

====
